---- MODULE Spec2Model ----
(***************************************************************************)
(* ImageNetDataProvider (lowformer/clscore/data_provider/imagenet.py).     *)
(*                                                                         *)
(* The provider object is the record `self`; every method is an operator   *)
(* from (self, arguments) to [self |-> the object afterwards, status,      *)
(* value], and every action applies one method to the state.               *)
(*                                                                         *)
(* Encodings.  A path is a sequence of one-character strings.  An optional *)
(* value is a record [isNone, v].  A transform is a record [op, size,      *)
(* interpolation, p, aug]; a pipeline (transforms.Compose) is a sequence   *)
(* of transforms.  test_crop_ratio is the rational num/den, den > 0,       *)
(* num > 0.  An augmentation spec is [kind, items] with kind "none" (None),*)
(* "dict" (one entry, not in a list) or "list".                            *)
(***************************************************************************)
EXTENDS Integers, Sequences, FiniteSets, TLC

VARIABLES pc, args, self, last, first, again

vars == <<pc, args, self, last, first, again>>

----------------------------------------------------------------------------
(* Bounds of the explored inputs.                                          *)

MaxAugLen == 3

MaxImageSize == 3

MaxRatioNum == 4

MaxRatioDen == 4

MaxDirLen == 4

----------------------------------------------------------------------------
(* Optional values and Python truthiness.                                  *)

NoneSeq == [isNone |-> TRUE, v |-> <<>>]

SomeSeq(s) == [isNone |-> FALSE, v |-> s]

\* `x or y` for a str / tuple / dict operand x: None and the empty value are
\* falsy.  An empty dict is a function with the empty domain, which is <<>>.
Truthy(opt) == ~opt.isNone /\ opt.v # <<>>

----------------------------------------------------------------------------
(* Class attributes.                                                       *)

CLASS_DATA_DIR ==
  << "/", "d", "a", "t", "a", "s", "e", "t", "/",
     "i", "m", "a", "g", "e", "n", "e", "t" >>

CLASS_N_CLASSES == 1000

DefaultRatio == [num |-> 1, den |-> 1]

\* A default with another test interpolation.
BadDefaultRrcConfig ==
  [train_interpolate |-> "random",
   test_interpolate  |-> "bilinear",
   test_crop_ratio   |-> DefaultRatio]

DEFAULT_RRC_CONFIG ==
  [train_interpolate |-> "random",
   test_interpolate  |-> "bicubic",
   test_crop_ratio   |-> DefaultRatio]

----------------------------------------------------------------------------
(* Collaborators defined outside this file.                                *)

\* lowformer.apps.utils.partial_update_config: shallow key overlay, the keys
\* of partial_config win, the other keys of config stay.
partial_update_config(config, partial_config) ==
  [k \in (DOMAIN config) \cup (DOMAIN partial_config) |->
     IF k \in DOMAIN partial_config THEN partial_config[k] ELSE config[k]]

\* lowformer.models.utils.val2list: a list stays, any other value becomes a
\* one-element list.
val2list(x) ==
  IF x.kind = "list" THEN x.items ELSE <<x.items[1]>>

\* DataProvider.__init__: image-size normalisation and validation split
\* bookkeeping of the base class.  A scalar size s becomes the pair (s, s),
\* which is also the active size.
DataProvider_init(obj, a) ==
  [obj EXCEPT !.image_size        = <<a.image_size, a.image_size>>,
              !.active_image_size = <<a.image_size, a.image_size>>,
              !.valid_size        = a.valid_size]

----------------------------------------------------------------------------
(* Transforms.                                                             *)

NoEntry == [name |-> "", p |-> 0]

Transform(op, size, interpolation, p, aug) ==
  [op |-> op, size |-> size, interpolation |-> interpolation, p |-> p, aug |-> aug]

MyRandomResizedCrop(interpolation) ==
  Transform("MyRandomResizedCrop", 0, interpolation, 0, NoEntry)

RandomHorizontalFlip == Transform("RandomHorizontalFlip", 0, "", 0, NoEntry)

ToTensor == Transform("ToTensor", 0, "", 0, NoEntry)

Normalize == Transform("Normalize", 0, "", 0, NoEntry)

\* get_interpolate(name) is recorded by the name it is given.
Resize(size, interpolation) == Transform("Resize", size, interpolation, 0, NoEntry)

CenterCrop(size) == Transform("CenterCrop", size, "", 0, NoEntry)

RandAug(aug_op) == Transform("RandAug", 0, "", 0, aug_op)

RandomErasing(p) == Transform("RandomErasing", 0, "", p, NoEntry)

----------------------------------------------------------------------------
(* __init__                                                                *)

\* A constructor that normalises the spec to a list while storing it.
StoreAsList(data_aug) ==
  IF data_aug.kind = "none" THEN data_aug
  ELSE [kind |-> "list", items |-> data_aug.items]

\* self.data_aug = data_aug
StoredDataAug(data_aug) == data_aug

ProviderInit(obj, a) ==
  DataProvider_init(
    [obj EXCEPT
       !.data_dir   = IF Truthy(a.data_dir) THEN a.data_dir.v ELSE obj.data_dir,
       !.val_dir    = a.val_dir,
       !.rrc_config = partial_update_config(
                        DEFAULT_RRC_CONFIG,
                        IF Truthy(a.rrc_config) THEN a.rrc_config.v ELSE <<>>),
       !.n_classes  = a.n_classes,
       !.data_aug   = StoredDataAug(a.data_aug)],
    a)

----------------------------------------------------------------------------
(* build_valid_transform                                                   *)

\* math.ceil(a / b) for integers a >= 0, b > 0.
CeilDiv(a, b) == (a + b - 1) \div b

\* The crop size with the ratio multiplied instead of divided.
CropSizeTimesRatio(image_size, ratio) ==
  CeilDiv(image_size * ratio.num, ratio.den)

\* The crop size rounded down instead of up.
CropSizeFloor(image_size, ratio) ==
  (image_size * ratio.den) \div ratio.num

\* int(math.ceil(image_size / test_crop_ratio)), test_crop_ratio = num/den:
\* image_size / (num/den) = image_size * den / num.  The quotient is exact
\* here; the rounding of the double-precision division is not modelled.
CropSize(image_size, ratio) ==
  CeilDiv(image_size * ratio.den, ratio.num)

Ok(obj, value) == [self |-> obj, status |-> "ok", value |-> value]

Raise(obj, error) == [self |-> obj, status |-> error, value |-> <<>>]

ValidPipeline(obj, size) ==
  << Resize(CropSize(size, obj.rrc_config["test_crop_ratio"]),
            obj.rrc_config["test_interpolate"]),
     CenterCrop(size),
     ToTensor,
     Normalize >>

build_valid_transform(obj, image_size) ==
  LET size == (IF Truthy(image_size) THEN image_size.v ELSE obj.active_image_size)[1]
  IN  Ok(obj, ValidPipeline(obj, size))

----------------------------------------------------------------------------
(* build_train_transform                                                   *)

AugLoopResult(status, train_transforms, post_aug) ==
  [status |-> status, train_transforms |-> train_transforms, post_aug |-> post_aug]

\* The loop with the final `else: raise` lost: an unknown name is skipped.
RECURSIVE AugLoopSkipUnknown(_, _, _, _)
AugLoopSkipUnknown(ops, i, train_transforms, post_aug) ==
  IF i > Len(ops) THEN AugLoopResult("ok", train_transforms, post_aug)
  ELSE IF ops[i].name = "randaug"
  THEN AugLoopSkipUnknown(ops, i + 1, Append(train_transforms, RandAug(ops[i])), post_aug)
  ELSE IF ops[i].name = "erase"
  THEN AugLoopSkipUnknown(ops, i + 1, train_transforms,
                          Append(post_aug, RandomErasing(ops[i].p)))
  ELSE AugLoopSkipUnknown(ops, i + 1, train_transforms, post_aug)

\* The loop with the erasing operator appended to the pre-tensor list.
RECURSIVE AugLoopEraseInline(_, _, _, _)
AugLoopEraseInline(ops, i, train_transforms, post_aug) ==
  IF i > Len(ops) THEN AugLoopResult("ok", train_transforms, post_aug)
  ELSE IF ops[i].name = "randaug"
  THEN AugLoopEraseInline(ops, i + 1, Append(train_transforms, RandAug(ops[i])), post_aug)
  ELSE IF ops[i].name = "erase"
  THEN AugLoopEraseInline(ops, i + 1,
                          Append(train_transforms, RandomErasing(ops[i].p)), post_aug)
  ELSE AugLoopResult("NotImplementedError", train_transforms, post_aug)

\* The loop with each erasing operator put in front of the earlier ones.
RECURSIVE AugLoopErasePrepend(_, _, _, _)
AugLoopErasePrepend(ops, i, train_transforms, post_aug) ==
  IF i > Len(ops) THEN AugLoopResult("ok", train_transforms, post_aug)
  ELSE IF ops[i].name = "randaug"
  THEN AugLoopErasePrepend(ops, i + 1, Append(train_transforms, RandAug(ops[i])), post_aug)
  ELSE IF ops[i].name = "erase"
  THEN AugLoopErasePrepend(ops, i + 1, train_transforms,
                           <<RandomErasing(ops[i].p)>> \o post_aug)
  ELSE AugLoopResult("NotImplementedError", train_transforms, post_aug)

\* One pass of `for aug_op in val2list(self.data_aug)` from entry i on, with
\* the two lists built so far.
RECURSIVE AugLoop(_, _, _, _)
AugLoop(ops, i, train_transforms, post_aug) ==
  IF i > Len(ops)
  THEN AugLoopResult("ok", train_transforms, post_aug)
  ELSE LET aug_op == ops[i] IN
       IF aug_op.name = "randaug"
       THEN AugLoop(ops, i + 1, Append(train_transforms, RandAug(aug_op)), post_aug)
       ELSE IF aug_op.name = "erase"
       THEN AugLoop(ops, i + 1, train_transforms, Append(post_aug, RandomErasing(aug_op.p)))
       ELSE AugLoopResult("NotImplementedError", train_transforms, post_aug)

\* The loop entered without the `is not None` test: val2list(None) is [None].
AugOpsUnguarded(data_aug) ==
  IF data_aug.kind = "none" THEN <<NoEntry>> ELSE val2list(data_aug)

\* The entries the loop runs over: none when self.data_aug is None.
AugOps(data_aug) ==
  IF data_aug.kind # "none" THEN val2list(data_aug) ELSE <<>>

\* The build with the entries consumed from self.data_aug as they are used.
build_train_transform_consuming(obj, image_size) ==
  LET loop == AugLoop(AugOps(obj.data_aug), 1,
                      << MyRandomResizedCrop(obj.rrc_config["train_interpolate"]),
                         RandomHorizontalFlip >>,
                      <<>>)
      used == [obj EXCEPT !.data_aug =
                 IF @.kind = "list" THEN [kind |-> "list", items |-> <<>>] ELSE @]
  IN  IF loop.status # "ok"
      THEN Raise(used, loop.status)
      ELSE Ok(used, loop.train_transforms \o <<ToTensor, Normalize>> \o loop.post_aug)

build_train_transform(obj, image_size) ==
  LET size == IF Truthy(image_size) THEN image_size.v ELSE obj.image_size
      loop == AugLoop(AugOps(obj.data_aug), 1,
                      << MyRandomResizedCrop(obj.rrc_config["train_interpolate"]),
                         RandomHorizontalFlip >>,
                      <<>>)
  IN  IF loop.status # "ok"
      THEN Raise(obj, loop.status)
      ELSE Ok(obj, loop.train_transforms \o <<ToTensor, Normalize>> \o loop.post_aug)

----------------------------------------------------------------------------
(* build_datasets                                                          *)

TRAIN == <<"t", "r", "a", "i", "n">>

VAL == <<"v", "a", "l">>

PATTERN_21K == <<"2", "1", "K">>

\* `pattern in s` for strings: the first position from i on where pattern
\* occurs decides.
RECURSIVE FindFrom(_, _, _)
FindFrom(s, pattern, i) ==
  IF i + Len(pattern) - 1 > Len(s) THEN FALSE
  ELSE IF SubSeq(s, i, i + Len(pattern) - 1) = pattern THEN TRUE
  ELSE FindFrom(s, pattern, i + 1)

\* The layout test looking at the start of the path only.
StartsWith21K(data_dir) ==
  /\ Len(data_dir) >= Len(PATTERN_21K)
  /\ SubSeq(data_dir, 1, Len(PATTERN_21K)) = PATTERN_21K

\* "21K" in self.data_dir
Has21K(data_dir) == FindFrom(data_dir, PATTERN_21K, 1)

\* os.path.join(a, b) for a relative b: the separator is added unless a is
\* empty or already ends with one.
PathJoin(a, b) ==
  IF a = <<>> \/ a[Len(a)] = "/" THEN a \o b ELSE a \o <<"/">> \o b

\* ImageFolder(root, transform): the handle of the folder dataset.
NoDataset == [present |-> FALSE, root |-> <<>>, transform |-> <<>>]

ImageFolder(root, transform) ==
  [present |-> TRUE, root |-> root, transform |-> transform]

\* DataProvider.sample_val_dataset: with no valid_size there is no held-out
\* set; otherwise the held-out part of the train folder gets the eval
\* transform.  Both parts read the samples of train_dataset.
sample_val_dataset(obj, train_dataset, valid_transform) ==
  IF obj.valid_size.isNone
  THEN <<train_dataset, NoDataset>>
  ELSE <<train_dataset, ImageFolder(train_dataset.root, valid_transform)>>

\* The returned triple, with the train folder as it was handed to
\* sample_val_dataset.
Datasets(train, val, test, train_folder) ==
  [train |-> train, val |-> val, test |-> test, train_folder |-> train_folder]

build_datasets(obj) ==
  LET t == build_train_transform(obj, NoneSeq) IN
  IF t.status # "ok" THEN Raise(t.self, t.status)
  ELSE
  LET v == build_valid_transform(t.self, NoneSeq)
      o == v.self
      train_transform == t.value
      valid_transform == v.value
      is21K == Has21K(o.data_dir)
      train_dataset ==
        IF is21K THEN ImageFolder(o.data_dir, train_transform)
        ELSE ImageFolder(PathJoin(o.data_dir, TRAIN), train_transform)
      test_dataset ==
        IF is21K THEN ImageFolder(o.val_dir, valid_transform)
        ELSE ImageFolder(PathJoin(o.data_dir, VAL), valid_transform)
      split == sample_val_dataset(o, train_dataset, valid_transform)
  IN  Ok(o, Datasets(split[1], split[2], test_dataset, train_dataset))

----------------------------------------------------------------------------
(* The state machine: a provider is constructed from `args`, then its      *)
(* methods are called in any order.  `last` is the latest call with its    *)
(* outcome, `first` the first call made on the provider, `again` whether   *)
(* a call was made after the first one.                                    *)

NoDatasets == Datasets(NoDataset, NoDataset, NoDataset, NoDataset)

NoCall ==
  [op |-> "none", image_size |-> NoneSeq, status |-> "none",
   transform |-> <<>>, datasets |-> NoDatasets]

TransformCall(op, image_size, r) ==
  [op |-> op, image_size |-> image_size, status |-> r.status,
   transform |-> r.value, datasets |-> NoDatasets]

DatasetsCall(r) ==
  [op |-> "build_datasets", image_size |-> NoneSeq, status |-> r.status,
   transform |-> <<>>,
   datasets |-> IF r.status = "ok" THEN r.value ELSE NoDatasets]

\* The object before __init__ runs: only the class attributes exist.
Unconstructed ==
  [data_dir |-> CLASS_DATA_DIR, val_dir |-> <<>>, rrc_config |-> <<>>,
   n_classes |-> CLASS_N_CLASSES, data_aug |-> [kind |-> "none", items |-> <<>>],
   image_size |-> <<>>, active_image_size |-> <<>>, valid_size |-> NoneSeq]

Chars == {"2", "1", "K", "/"}

RECURSIVE SeqsUpTo(_, _)
SeqsUpTo(S, n) ==
  IF n = 0 THEN {<<>>}
  ELSE LET shorter == SeqsUpTo(S, n - 1)
       IN  shorter \cup {Append(s, x) : s \in {t \in shorter : Len(t) = n - 1}, x \in S}

Dirs == SeqsUpTo(Chars, MaxDirLen)

DataDirArgs == {NoneSeq} \cup {SomeSeq(d) : d \in Dirs}

ValDirs == {<<>>, <<"v">>}

Interpolations == {"random", "bicubic"}

Ratio09 == [num |-> 9, den |-> 10]

Ratios == [num : 1..MaxRatioNum, den : 1..MaxRatioDen] \cup {Ratio09}

RrcKeys == {"train_interpolate", "test_interpolate", "test_crop_ratio"}

RrcValues(k) == IF k = "test_crop_ratio" THEN Ratios ELSE Interpolations

\* Every dict over a subset of the three keys of the resize/crop config.
RrcConfigs ==
  {[k \in D |-> full[k]] :
     full \in [train_interpolate : Interpolations,
               test_interpolate  : Interpolations,
               test_crop_ratio   : Ratios],
     D \in SUBSET RrcKeys}

RrcConfigArgs == {NoneSeq} \cup {SomeSeq(c) : c \in RrcConfigs}

AugNames == {"randaug", "erase", "mixup"}

\* p: the entry's parameter, in percent.
AugEntries == [name : AugNames, p : {20, 50}]

NoneAug == [kind |-> "none", items |-> <<>>]

DataAugs ==
  {NoneAug}
    \cup {[kind |-> "dict", items |-> <<e>>] : e \in AugEntries}
    \cup {[kind |-> "list", items |-> l] : l \in SeqsUpTo(AugEntries, MaxAugLen)}

BadAug == [kind |-> "dict", items |-> <<[name |-> "mixup", p |-> 20]>>]

\* Explicit image sizes handed to build_valid_transform: (h, w) with h # w.
ImageSizeArgs ==
  {NoneSeq} \cup {SomeSeq(<<h, (h % MaxImageSize) + 1>>) : h \in 1..MaxImageSize}

TrainSizeArgs == {NoneSeq, SomeSeq(<<MaxImageSize, MaxImageSize>>)}

ValidSizes == {NoneSeq, SomeSeq(<<1>>)}

NClasses == {1000, 21841}

CtorArgs(dirs, valdirs, rrcs, augs, sizes, valids, ns) ==
  [data_dir : dirs, val_dir : valdirs, rrc_config : rrcs, data_aug : augs,
   image_size : sizes, valid_size : valids, n_classes : ns]

\* Three families of constructor calls: every augmentation spec, every
\* resize/crop override, every data directory.
AugArgs ==
  CtorArgs({NoneSeq}, {<<>>}, {NoneSeq}, DataAugs, {MaxImageSize}, {NoneSeq},
           NClasses)

RrcArgs ==
  CtorArgs({NoneSeq}, {<<>>}, RrcConfigArgs, {NoneAug}, 1..MaxImageSize, ValidSizes,
           {1000})

DirArgs ==
  CtorArgs(DataDirArgs, ValDirs, {NoneSeq}, {NoneAug, BadAug}, {MaxImageSize},
           {NoneSeq}, {1000})

InitWith(A) ==
  /\ pc = "new"
  /\ args \in A
  /\ self = Unconstructed
  /\ last = NoCall
  /\ first = NoCall
  /\ again = FALSE

InitAug == InitWith(AugArgs)

InitRrc == InitWith(RrcArgs)

InitDirs == InitWith(DirArgs)

Init == InitWith(AugArgs \cup RrcArgs \cup DirArgs)

Record(call) ==
  /\ last' = call
  /\ first' = IF first.op = "none" THEN call ELSE first
  /\ again' = (first.op # "none")

Construct ==
  /\ pc = "new"
  /\ pc' = "ready"
  /\ self' = ProviderInit(self, args)
  /\ UNCHANGED <<args, last, first, again>>

BuildTrainTransform(image_size) ==
  /\ pc = "ready"
  /\ LET r == build_train_transform(self, image_size) IN
       /\ self' = r.self
       /\ Record(TransformCall("build_train_transform", image_size, r))
  /\ UNCHANGED <<pc, args>>

BuildValidTransform(image_size) ==
  /\ pc = "ready"
  /\ LET r == build_valid_transform(self, image_size) IN
       /\ self' = r.self
       /\ Record(TransformCall("build_valid_transform", image_size, r))
  /\ UNCHANGED <<pc, args>>

BuildDatasets ==
  /\ pc = "ready"
  /\ LET r == build_datasets(self) IN
       /\ self' = r.self
       /\ Record(DatasetsCall(r))
  /\ UNCHANGED <<pc, args>>

Next ==
  \/ Construct
  \/ \E image_size \in TrainSizeArgs : BuildTrainTransform(image_size)
  \/ \E image_size \in ImageSizeArgs : BuildValidTransform(image_size)
  \/ BuildDatasets

Spec == Init /\ [][Next]_vars

SpecAug == InitAug /\ [][Next]_vars

SpecRrc == InitRrc /\ [][Next]_vars

SpecDirs == InitDirs /\ [][Next]_vars

----------------------------------------------------------------------------
(* Properties of build_train_transform.                                    *)

Recognized == {"randaug", "erase"}

\* The entries of an augmentation spec, in order.
Entries(data_aug) == IF data_aug.kind = "none" THEN <<>> ELSE data_aug.items

HasUnrecognized(data_aug) ==
  \E i \in DOMAIN Entries(data_aug) : Entries(data_aug)[i].name \notin Recognized

TrainCalled == pc = "ready" /\ last.op = "build_train_transform"

Ops(pipeline) == [i \in DOMAIN pipeline |-> pipeline[i].op]

\* C1: whenever the augmentation spec holds an entry whose name is neither
\* "randaug" nor "erase", build_train_transform ends with NotImplementedError
\* and hands back no pipeline, wherever that entry sits.
C1_UnrecognizedFails ==
  (TrainCalled /\ HasUnrecognized(self.data_aug))
    => (last.status = "NotImplementedError" /\ last.transform = <<>>)

\* An unrecognized entry in the last place, after a "randaug" and an "erase"
\* entry, made the build fail.
C1_Witness ==
  /\ TrainCalled
  /\ self.data_aug.kind = "list"
  /\ Len(self.data_aug.items) = 3
  /\ self.data_aug.items[1].name = "randaug"
  /\ self.data_aug.items[2].name = "erase"
  /\ self.data_aug.items[3].name = "mixup"
  /\ last.status = "NotImplementedError"
  /\ last.transform = <<>>

\* C2: in every pipeline build_train_transform returns, every RandomErasing
\* stage lies after the Normalize stage, and no Normalize stage lies after a
\* RandomErasing stage.
C2_EraseAfterNormalize ==
  (TrainCalled /\ last.status = "ok") =>
    \A i \in DOMAIN last.transform :
      last.transform[i].op = "RandomErasing" =>
        /\ \E j \in 1..(i - 1) : last.transform[j].op = "Normalize"
        /\ \A j \in i..Len(last.transform) :
             last.transform[j].op \notin {"Normalize", "ToTensor"}

\* A spec with "erase" ahead of "randaug" gave a pipeline with the erasing
\* stage last.
C2_Witness ==
  /\ TrainCalled
  /\ last.status = "ok"
  /\ self.data_aug.kind = "list"
  /\ Len(self.data_aug.items) = 2
  /\ self.data_aug.items[1].name = "erase"
  /\ self.data_aug.items[2].name = "randaug"
  /\ Ops(last.transform) =
       <<"MyRandomResizedCrop", "RandomHorizontalFlip", "RandAug", "ToTensor",
         "Normalize", "RandomErasing">>

\* C7: with data_aug None, build_train_transform returns exactly
\* random-resized-crop, random-horizontal-flip, to-tensor, normalize.
C7_NoAugPipeline ==
  (TrainCalled /\ self.data_aug.kind = "none") =>
    /\ last.status = "ok"
    /\ Ops(last.transform) =
         <<"MyRandomResizedCrop", "RandomHorizontalFlip", "ToTensor", "Normalize">>

\* The four-stage pipeline was built on a provider without augmentation.
C7_Witness ==
  /\ TrainCalled
  /\ args.data_aug.kind = "none"
  /\ self.data_aug.kind = "none"
  /\ last.status = "ok"
  /\ Len(last.transform) = 4

IsRandaug(e) == e.name = "randaug"

IsErase(e) == e.name = "erase"

\* The pipeline C10 describes for the entries es and the train interpolation.
ExpectedTrain(es, interpolation) ==
  LET ra == SelectSeq(es, IsRandaug)
      er == SelectSeq(es, IsErase)
  IN  << MyRandomResizedCrop(interpolation), RandomHorizontalFlip >>
        \o [i \in DOMAIN ra |-> RandAug(ra[i])]
        \o << ToTensor, Normalize >>
        \o [i \in DOMAIN er |-> RandomErasing(er[i].p)]

\* C10: when every entry is named "randaug" or "erase", the pipeline is
\* crop, flip, one RandAug per "randaug" entry in spec order, to-tensor,
\* normalize, one RandomErasing per "erase" entry in spec order; it has
\* 4 + (number of entries) stages; a single entry counts as a list of one.
C10_TrainOrder ==
  (TrainCalled /\ ~HasUnrecognized(self.data_aug)) =>
    /\ last.status = "ok"
    /\ last.transform =
         ExpectedTrain(Entries(self.data_aug), self.rrc_config["train_interpolate"])
    /\ Len(last.transform) = 4 + Len(Entries(self.data_aug))

\* Two "erase" entries with different parameters around a "randaug" entry
\* gave the six-stage pipeline with the erasing stages in spec order.
C10_Witness ==
  /\ TrainCalled
  /\ last.status = "ok"
  /\ self.data_aug.kind = "list"
  /\ Len(self.data_aug.items) = 3
  /\ self.data_aug.items[1] = [name |-> "erase", p |-> 50]
  /\ self.data_aug.items[2].name = "randaug"
  /\ self.data_aug.items[3] = [name |-> "erase", p |-> 20]
  /\ Len(last.transform) = 7
  /\ last.transform[6].p = 50
  /\ last.transform[7].p = 20

----------------------------------------------------------------------------
(* Properties of build_valid_transform and of the resize/crop config.      *)

ValidCalled == pc = "ready" /\ last.op = "build_valid_transform"

\* The target size of the last call: the first component of the explicit
\* size, else of the active size.
TargetSize ==
  IF last.image_size.isNone THEN self.active_image_size[1] ELSE last.image_size.v[1]

TestCropRatio == self.rrc_config["test_crop_ratio"]

\* r <= 1.0 for r = num/den.
AtMostOne(r) == r.num <= r.den

\* c = ceil(s / r): the least integer c with c * r >= s.
IsCeilOfQuotient(c, s, r) ==
  /\ c * r.num >= s * r.den
  /\ (c - 1) * r.num < s * r.den

\* C3: for 0 < test_crop_ratio <= 1.0, build_valid_transform returns
\* resize(ceil(s/r)) -> center-crop(s) -> to-tensor -> normalize with
\* ceil(s/r) >= s, s being the first component of the explicit size when one
\* is passed and of the active size otherwise.
C3_ValidPipeline ==
  (ValidCalled /\ AtMostOne(TestCropRatio)) =>
    /\ last.status = "ok"
    /\ Ops(last.transform) = <<"Resize", "CenterCrop", "ToTensor", "Normalize">>
    /\ last.transform[2].size = TargetSize
    /\ IsCeilOfQuotient(last.transform[1].size, TargetSize, TestCropRatio)
    /\ last.transform[1].size >= TargetSize

\* An explicit size (2, 3) under ratio 3/4 gave resize 3 = ceil(8/3) and
\* center-crop 2, on a provider whose active size is not 2.
C3_Witness ==
  /\ ValidCalled
  /\ TestCropRatio = [num |-> 3, den |-> 4]
  /\ ~last.image_size.isNone
  /\ last.image_size.v = <<2, 3>>
  /\ self.active_image_size[1] # 2
  /\ last.transform[1].size = 3
  /\ last.transform[2].size = 2

\* C4 as stated: on every constructible provider the resize size of
\* build_valid_transform is at least the center-crop size.
C4_CropAtLeastTarget_AnyConfig ==
  ValidCalled => last.transform[1].size >= last.transform[2].size

\* C4 amended: when the provider's test_crop_ratio is at most 1.0 (the
\* default 1.0 included), the resize size is at least the center-crop size.
C4_CropAtLeastTarget ==
  (ValidCalled /\ AtMostOne(TestCropRatio)) =>
    last.transform[1].size >= last.transform[2].size

\* A caller override below 1.0 gave a resize strictly larger than the crop.
C4_Witness ==
  /\ ValidCalled
  /\ ~args.rrc_config.isNone
  /\ "test_crop_ratio" \in DOMAIN args.rrc_config.v
  /\ TestCropRatio.num < TestCropRatio.den
  /\ last.transform[1].size > last.transform[2].size

Constructed == pc = "ready"

Given == IF args.rrc_config.isNone THEN <<>> ELSE args.rrc_config.v

\* C6: after construction rrc_config has exactly the three keys; a key the
\* caller gave holds the caller's value, any other key its default
\* ("random", "bicubic", 1.0); {"test_crop_ratio": 0.9} changes that key
\* only, and None gives the default.
C6_RrcOverlay ==
  Constructed =>
    /\ DOMAIN self.rrc_config = {"train_interpolate", "test_interpolate", "test_crop_ratio"}
    /\ \A k \in DOMAIN Given : self.rrc_config[k] = Given[k]
    /\ "train_interpolate" \notin DOMAIN Given
         => self.rrc_config["train_interpolate"] = "random"
    /\ "test_interpolate" \notin DOMAIN Given
         => self.rrc_config["test_interpolate"] = "bicubic"
    /\ "test_crop_ratio" \notin DOMAIN Given
         => self.rrc_config["test_crop_ratio"] = [num |-> 1, den |-> 1]
    /\ (DOMAIN Given = {"test_crop_ratio"} /\ Given["test_crop_ratio"] = [num |-> 9, den |-> 10])
         => self.rrc_config = [train_interpolate |-> "random",
                               test_interpolate  |-> "bicubic",
                               test_crop_ratio   |-> [num |-> 9, den |-> 10]]

\* The override {"test_crop_ratio": 0.9} was merged.
C6_Witness ==
  /\ Constructed
  /\ ~args.rrc_config.isNone
  /\ DOMAIN args.rrc_config.v = {"test_crop_ratio"}
  /\ args.rrc_config.v["test_crop_ratio"] = [num |-> 9, den |-> 10]
  /\ self.rrc_config["train_interpolate"] = "random"
  /\ self.rrc_config["test_interpolate"] = "bicubic"
  /\ self.rrc_config["test_crop_ratio"] = [num |-> 9, den |-> 10]

----------------------------------------------------------------------------
(* Properties of build_datasets.                                           *)

DatasetsBuilt ==
  pc = "ready" /\ last.op = "build_datasets" /\ last.status = "ok"

\* "21K" occurs somewhere in the path d.
Occurs21K(d) ==
  \E i \in 1..(Len(d) - 2) : d[i] = "2" /\ d[i + 1] = "1" /\ d[i + 2] = "K"

\* The names between the separators of a path, in order; cur is the name
\* being read.
RECURSIVE SplitNames(_, _)
SplitNames(path, cur) ==
  LET done == IF cur = <<>> THEN <<>> ELSE <<cur>> IN
  IF path = <<>> THEN done
  ELSE IF Head(path) = "/" THEN done \o SplitNames(Tail(path), <<>>)
  ELSE SplitNames(Tail(path), Append(cur, Head(path)))

Names(path) == SplitNames(path, <<>>)

IsAbsolute(path) == path # <<>> /\ path[1] = "/"

\* root is the entry `name` of the directory dir.
IsChildOf(root, dir, name) ==
  /\ Names(root) = Append(Names(dir), name)
  /\ IsAbsolute(root) = IsAbsolute(dir)

\* C5: with "21K" anywhere in data_dir the train folder is data_dir itself
\* and the test folder is val_dir; otherwise they are the entries "train"
\* and "val" of data_dir, whatever val_dir is.  The train folder carries
\* the train transform and the test folder the eval transform.
C5_DatasetLayout ==
  DatasetsBuilt =>
    LET d == last.datasets IN
    /\ Occurs21K(self.data_dir) =>
         (d.train_folder.root = self.data_dir /\ d.test.root = self.val_dir)
    /\ ~Occurs21K(self.data_dir) =>
         /\ IsChildOf(d.train_folder.root, self.data_dir, <<"t", "r", "a", "i", "n">>)
         /\ IsChildOf(d.test.root, self.data_dir, <<"v", "a", "l">>)
    /\ d.train_folder.transform = build_train_transform(self, NoneSeq).value
    /\ d.test.transform = build_valid_transform(self, NoneSeq).value
    /\ d.train_folder.transform[1].op = "MyRandomResizedCrop"
    /\ d.test.transform[1].op = "Resize"

\* The datasets were built for the data_dir "/21K" with val_dir "v".
C5_Witness ==
  /\ DatasetsBuilt
  /\ self.data_dir = <<"/", "2", "1", "K">>
  /\ self.val_dir = <<"v">>
  /\ last.datasets.train_folder.root = <<"/", "2", "1", "K">>
  /\ last.datasets.test.root = <<"v">>

----------------------------------------------------------------------------
(* Properties of the provider across calls.                                *)

Failed(call) == call.status = "NotImplementedError"

Builds == {"build_train_transform", "build_datasets"}

\* C8: the constructor stores the augmentation spec as given, unrecognized
\* names included; NotImplementedError comes only from build_train_transform
\* or build_datasets, which fail on such a spec, while build_valid_transform
\* on the same provider succeeds.
C8_DeferredValidation ==
  /\ Constructed => self.data_aug = args.data_aug
  /\ Failed(last) => (last.op \in Builds /\ HasUnrecognized(args.data_aug))
  /\ (Constructed /\ last.op \in Builds /\ HasUnrecognized(args.data_aug)) => Failed(last)
  /\ last.op = "build_valid_transform" => last.status = "ok"

\* A provider built from a single unrecognized entry first gave an eval
\* pipeline and then failed in build_datasets.
C8_Witness ==
  /\ Constructed
  /\ args.data_aug.kind = "dict"
  /\ HasUnrecognized(args.data_aug)
  /\ self.data_aug = args.data_aug
  /\ first.op = "build_valid_transform"
  /\ first.status = "ok"
  /\ Len(first.transform) = 4
  /\ last.op = "build_datasets"
  /\ Failed(last)

Config(obj) == <<obj.data_dir, obj.val_dir, obj.rrc_config, obj.data_aug, obj.n_classes>>

SameCall(a, b) == a.op = b.op /\ a.image_size = b.image_size

\* C9: no call of a builder changes data_dir, val_dir, rrc_config, data_aug
\* or n_classes, whether it returns or fails, and a call with the op and
\* arguments of the first call has the outcome of the first call.
C9_CallsIndependent ==
  /\ [][Constructed => Config(self') = Config(self)]_vars
  /\ [](SameCall(first, last) =>
          (last.status = first.status /\ last.transform = first.transform))

\* build_train_transform failed, other calls followed, and it failed again
\* on the unchanged augmentation spec.
C9_Witness ==
  /\ Constructed
  /\ again
  /\ first.op = "build_train_transform"
  /\ SameCall(first, last)
  /\ Failed(first)
  /\ Failed(last)
  /\ self.data_aug = args.data_aug
  /\ Len(self.data_aug.items) = 3

====
